---- MODULE Spec2Model ----
(***************************************************************************)
(* Team membership, invitation and task workflow of the task manager.      *)
(*                                                                         *)
(* The persistent store is the set of rows of the Team, Team.members       *)
(* (many-to-many), Invitation and Task tables.  The models open no         *)
(* transaction, so every ORM statement commits on its own.  Each handler   *)
(* is written as a sequence of statements: a statement is an operator      *)
(* from (store, request locals) to (store, request locals).                *)
(*                                                                         *)
(*   Spec      runs every handler from its first statement to its last in  *)
(*             one action (requests served one after the other).           *)
(*   ConcSpec  runs the same statements one at a time, interleaving the    *)
(*             statements of concurrent requests.                          *)
(***************************************************************************)
EXTENDS Integers, Sequences, FiniteSets, TLC

\* ---------------------------------------------------------------- bounds
MaxTeams == 2          \* team rows ever inserted
MaxInvitations == 2    \* invitation rows ever inserted
MaxTasks == 2          \* task rows ever inserted
MaxServed == 4         \* requests served in one behaviour (Spec)
MaxConcServed == 3     \* requests served in one behaviour (ConcSpec)
NumRequests == 2       \* requests in flight at the same time (ConcSpec)
MaxRaceServed == 4     \* requests served in one behaviour (TaskRaceSpec)
MaxClock == 2          \* ticks of the clock in one behaviour (ClockSpec)

\* ---------------------------------------------------------------- inputs
Users == {"u1", "u2", "u3"}            \* rows of the User table
Unknown == "nobody"                    \* a username no User row carries
Usernames == Users \cup {Unknown}
Requests == 1..NumRequests
None == "None"                         \* Python None for message

\* who creates teams, and what they submit: invitee list and message
Creators == {"u1"}
CreateLabel == [name |-> "Alpha", description |-> "first"]
CreateInputs ==
    {[invitees |-> <<>>, message |-> None],
     [invitees |-> <<"u2">>, message |-> "join"],
     [invitees |-> <<"u3">>, message |-> None],
     [invitees |-> <<"u2", "u3">>, message |-> "join"],
     [invitees |-> <<"u1", "u3">>, message |-> "join"],
     [invitees |-> <<"u3", "u3">>, message |-> None],
     [invitees |-> <<Unknown, "u3">>, message |-> None]}
\* what edit_team is handed: new name and description, invitees, removals
EditLabel == [name |-> "Beta", description |-> "second"]
EditInputs ==
    {[invitees |-> <<>>, remove |-> <<>>],
     [invitees |-> <<"u3">>, remove |-> <<>>],
     [invitees |-> <<>>, remove |-> <<"u2">>],
     [invitees |-> <<"u3", Unknown>>, remove |-> <<"u1">>]}
\* who calls send_invitation directly, and who posts task forms
Senders == {"u1", "u2"}
TaskActors == {"u1", "u3"}
Assignees == {"u1", "u2"}
\* due dates a task form can carry, and one later than every time reached
Dues == 0..(MaxClock + 1)
Future == MaxClock + 1
\* title, status and priority a task form carries
TaskLabel == [title |-> "Ab", status |-> "Not Started", priority |-> 1]
\* the task forms submitted before the pages are filtered
TaskForms ==
    LET other == [title |-> "Ba", status |-> "Complete", priority |-> 2] IN
    {[assignee |-> "u1", due |-> 1, label |-> TaskLabel],
     [assignee |-> "u1", due |-> 2, label |-> other],
     [assignee |-> "u2", due |-> 2, label |-> TaskLabel],
     [assignee |-> "u1", due |-> 3, label |-> other]}
\* the fields of a filter form: the ones filled in, and their values
FilterNames ==
    {"title__icontains", "status", "priority", "startDate", "endDate",
     "team__name", "assigned_to__username"}
FilterInputs ==
    {[given |-> g, title__icontains |-> "AB", status |-> "Complete",
      priority |-> 2, startDate |-> 2, endDate |-> 2, team__name |-> "ET",
      assigned_to__username |-> "U1"] : g \in SUBSET FilterNames}
\* the filter forms submitted: at most one field filled in
PageFilters == {f \in FilterInputs : Cardinality(f.given) <= 1}
\* what the concurrent requests submit
ConcInvitees == {<<>>, <<"u2">>}
ConcRecipients == {"u2", "u3"}

VARIABLES
    teams,        \* Team rows: [id, owner, name, description]
    members,      \* Team.members rows: <<team id, username>>
    invitations,  \* Invitation rows: [id, sender, recipient, team, message]
    tasks,        \* Task rows: [id, team, assigned_to, due_date, created_at,
                  \*            updated_at, title, status, priority]
    nextTeam,     \* next primary key of Team
    nextInv,      \* next primary key of Invitation
    nextTask,     \* next primary key of Task
    now,          \* the time timezone.now() returns
    users,        \* User rows: the usernames
    req,          \* ConcSpec: per request in flight, its position and locals
    last,         \* the request that finished last: its inputs and outcome
    served        \* number of requests served so far

db == <<teams, members, invitations, tasks, nextTeam, nextInv, nextTask, now,
       users>>
vars == <<teams, members, invitations, tasks, nextTeam, nextInv, nextTask,
          now, users, req, last, served>>

\* The store, and the clock the statements read, as one value.
Store == [teams |-> teams, members |-> members, invitations |-> invitations,
          tasks |-> tasks, nextTeam |-> nextTeam, nextInv |-> nextInv,
          nextTask |-> nextTask, now |-> now, users |-> users]

\* Locals of a request that has not started.
Idle == [pc |-> "idle", op |-> "none", team |-> 0, actor |-> "", user |-> "",
         inv |-> 0, task |-> 0, team2 |-> 0, owner |-> "", queue |-> <<>>,
         rmq |-> <<>>, sel |-> <<>>, message |-> "", name |-> "",
         description |-> "", byname |-> FALSE, due |-> 0, created |-> 0,
         title |-> "", status |-> "", priority |-> 0, result |-> ""]

\* ---------------------------------------------------------------- queries
TeamExists(w, t) == \E x \in w.teams : x.id = t
TeamRow(w, t) == CHOOSE x \in w.teams : x.id = t
MembersOf(w, t) == {u \in Users : <<t, u>> \in w.members}
IsMember(w, t, u) == <<t, u>> \in w.members
InvExists(w, i) == \E x \in w.invitations : x.id = i
InvRow(w, i) == CHOOSE x \in w.invitations : x.id = i
TaskExists(w, k) == \E x \in w.tasks : x.id = k
TaskRow(w, k) == CHOOSE x \in w.tasks : x.id = k

Out(w, q) == [w |-> w, q |-> q]
Done(w, q, res) == [w |-> w, q |-> [q EXCEPT !.pc = "done", !.result = res]]
\* The statement cannot run: the model's bound on rows is exhausted (or
\* the request has no statement left).
Blocked(w, q) == [w |-> w, q |-> [q EXCEPT !.pc = "blocked"]]

\* ------------------------------------------------- Team.send_invitation
\* Where control goes when send_invitation returns `ok`: the caller of a
\* direct call, or the loops of create_team (models.py 103-106) and
\* edit_team (models.py 120-126).
AfterSend(q, ok) ==
    LET rest == Tail(q.queue) IN
    CASE q.op = "send_invitation" ->
            [q EXCEPT !.pc = "done", !.result = IF ok THEN "true" ELSE "false"]
      [] q.op = "create_team" ->
            [q EXCEPT !.queue = rest,
                      !.pc = IF rest # <<>> THEN "send_check" ELSE "ct_add_owner"]
      [] OTHER ->
            [q EXCEPT !.queue = rest,
                      !.pc = IF rest # <<>> THEN "send_check"
                             ELSE IF q.rmq # <<>> THEN "rm_check" ELSE "et_save"]

\* models.py 84-87: resolve sender and recipient, test membership.
SendInvitationCheck(w, q) ==
    LET recipient == Head(q.queue) IN
    IF q.actor \notin w.users \/ recipient \notin w.users
    THEN Done(w, q, "DoesNotExist")
    ELSE IF IsMember(w, q.team, recipient)
         THEN Out(w, AfterSend(q, FALSE))
         ELSE Out(w, [q EXCEPT !.pc = "send_create"])

\* Variant: the table carries no unique constraint.
UniqueViolationOff(w, recipient, team) == FALSE

\* models.py 142-144: unique_together = ['recipient', 'team']
UniqueViolation(w, recipient, team) ==
    \E x \in w.invitations : x.recipient = recipient /\ x.team = team

\* Variant: the invitation is stored without the message.
SendInvitationCreateNoMessage(w, q) ==
    LET recipient == Head(q.queue) IN
    IF ~TeamExists(w, q.team) \/ UniqueViolation(w, recipient, q.team)
    THEN Done(w, q, "IntegrityError")
    ELSE IF w.nextInv > MaxInvitations THEN Blocked(w, q)
    ELSE Out([w EXCEPT
                !.invitations = @ \cup
                    {[id |-> w.nextInv, sender |-> q.actor,
                      recipient |-> recipient, team |-> q.team,
                      message |-> ""]},
                !.nextInv = @ + 1],
             AfterSend(q, TRUE))

\* models.py 88-96: Invitation.objects.create
SendInvitationCreate(w, q) ==
    LET recipient == Head(q.queue) IN
    IF ~TeamExists(w, q.team) \/ UniqueViolation(w, recipient, q.team)
    THEN Done(w, q, "IntegrityError")
    ELSE IF w.nextInv > MaxInvitations THEN Blocked(w, q)
    ELSE Out([w EXCEPT
                !.invitations = @ \cup
                    {[id |-> w.nextInv, sender |-> q.actor,
                      recipient |-> recipient, team |-> q.team,
                      message |-> IF q.message = None THEN "" ELSE q.message]},
                !.nextInv = @ + 1],
             AfterSend(q, TRUE))

\* ------------------------------------------------------ Team.create_team
\* models.py 101-103: team = cls(...); team.save(); the owner column is a
\* foreign key to User (models.py 57).
CreateTeamSave(w, q) ==
    IF q.actor \notin w.users THEN Done(w, q, "IntegrityError") ELSE
    IF w.nextTeam > MaxTeams THEN Blocked(w, q) ELSE
    Out([w EXCEPT
            !.teams = @ \cup {[id |-> w.nextTeam, owner |-> q.actor,
                               name |-> q.name,
                               description |-> q.description]},
            !.nextTeam = @ + 1],
        [q EXCEPT !.team = w.nextTeam,
                  !.pc = IF q.queue # <<>> THEN "send_check"
                         ELSE "ct_add_owner"])

\* models.py 106-107: team.members.add(owner); return team
CreateTeamAddOwner(w, q) ==
    IF TeamExists(w, q.team)
    THEN Done([w EXCEPT !.members = @ \cup {<<q.team, q.actor>>}], q, "team")
    ELSE Done(w, q, "IntegrityError")

\* --------------------------------------------- Invitation accept/decline
\* Variant: accept and decline do not test who is acting.
InvitationGetAnyUser(w, q) ==
    IF ~InvExists(w, q.inv) THEN Done(w, q, "not_found")
    ELSE LET i == InvRow(w, q.inv) IN
         Out(w, [q EXCEPT !.user = i.recipient, !.team = i.team,
                   !.pc = IF q.op = "accept_invitation"
                          THEN "acc_add" ELSE "inv_delete"])

\* views.py 456-460 and the permission test of models.py 148-149, 155-156
InvitationGet(w, q) ==
    IF ~InvExists(w, q.inv) THEN Done(w, q, "not_found")
    ELSE LET i == InvRow(w, q.inv) IN
         IF q.actor # i.recipient THEN Done(w, q, "PermissionDenied")
         ELSE Out(w, [q EXCEPT !.user = i.recipient, !.team = i.team,
                        !.pc = IF q.op = "accept_invitation"
                               THEN "acc_add" ELSE "inv_delete"])

\* Variant: accepting one invitation admits everyone invited to the team.
AcceptAddAllInvited(w, q) ==
    IF ~TeamExists(w, q.team) THEN Done(w, q, "DoesNotExist")
    ELSE Out([w EXCEPT !.members = @ \cup
                {<<q.team, x.recipient>> : x \in
                    {y \in w.invitations : y.team = q.team}}],
             [q EXCEPT !.pc = "inv_delete"])

\* models.py 151: self.team.members.add(self.recipient)
AcceptAdd(w, q) ==
    IF ~TeamExists(w, q.team) THEN Done(w, q, "DoesNotExist")
    ELSE Out([w EXCEPT !.members = @ \cup {<<q.team, q.user>>}],
             [q EXCEPT !.pc = "inv_delete"])

\* Variant: the invitation stays in the table.
InvitationDeleteKeep(w, q) ==
    Done(w, q, IF q.op = "accept_invitation" THEN "accepted" ELSE "declined")

\* Variant: the delete takes every invitation of the recipient with it.
InvitationDeleteOfRecipient(w, q) ==
    Done([w EXCEPT !.invitations = {x \in @ : x.recipient # q.user}], q,
         IF q.op = "accept_invitation" THEN "accepted" ELSE "declined")

\* models.py 152, 158: self.delete()
InvitationDelete(w, q) ==
    Done([w EXCEPT !.invitations = {x \in @ : x.id # q.inv}], q,
         IF q.op = "accept_invitation" THEN "accepted" ELSE "declined")

\* --------------------------------------------------- Team.remove_member
\* The user remove_member is called for: the argument of a direct call or
\* of the leave button, or the head of edit_team's remove_members.
RemoveTarget(q) ==
    IF q.op \in {"edit_team", "edit_team_view"} THEN Head(q.rmq) ELSE q.user

\* Where control goes when remove_member returns `ok` (models.py 123-126).
AfterRemove(q, ok) ==
    IF q.op \in {"edit_team", "edit_team_view"}
    THEN [q EXCEPT !.rmq = Tail(q.rmq), !.sel = <<>>,
                   !.pc = IF Tail(q.rmq) # <<>> THEN "rm_check" ELSE "et_save"]
    ELSE [q EXCEPT !.pc = "done", !.sel = <<>>,
                   !.result = IF ok THEN "true" ELSE "false"]

\* The ids of a set of rows in ascending order.
RECURSIVE SortedIds(_)
SortedIds(rows) ==
    IF rows = {} THEN <<>>
    ELSE LET m == CHOOSE x \in rows : \A y \in rows : x.id <= y.id
         IN <<m.id>> \o SortedIds(rows \ {m})

\* Variant: the selection ignores who the task is assigned to.
TasksOfMemberAnyAssignee(w, t, u) == {x \in w.tasks : x.team = t}

\* models.py 130: Task.objects.filter(assigned_to=member.id).filter(team=self.id)
TasksOfMember(w, t, u) == {x \in w.tasks : x.team = t /\ x.assigned_to = u}

\* Variant: the owner is removed like any other member.
RemoveMemberCheckAnyMember(w, q) ==
    LET target == RemoveTarget(q)
        direct == q.op \in {"remove_member", "leave_team"}
    IN  IF direct /\ ~TeamExists(w, q.team) THEN Done(w, q, "not_found")
        ELSE IF target \notin w.users THEN Done(w, q, "DoesNotExist")
        ELSE IF ~IsMember(w, q.team, target) THEN Out(w, AfterRemove(q, FALSE))
        ELSE IF q.byname THEN Done(w, q, "AttributeError")
        ELSE LET sel == SortedIds(TasksOfMember(w, q.team, target)) IN
             Out(w, [q EXCEPT !.sel = sel,
                       !.pc = IF sel # <<>> THEN "rm_delete" ELSE "rm_remove"])

\* models.py 63-68 and 130: look the user up, test membership and
\* ownership, select the member's tasks in the team.  remove_task reads
\* member.id of the argument it is handed: a User object has one, a
\* username string raises AttributeError.
RemoveMemberCheck(w, q) ==
    LET target == RemoveTarget(q)
        direct == q.op \in {"remove_member", "leave_team"}
        owner == IF direct THEN TeamRow(w, q.team).owner ELSE q.owner
    IN  IF direct /\ ~TeamExists(w, q.team) THEN Done(w, q, "not_found")
        ELSE IF target \notin w.users THEN Done(w, q, "DoesNotExist")
        ELSE IF ~IsMember(w, q.team, target) THEN Out(w, AfterRemove(q, FALSE))
        ELSE IF owner = target THEN Out(w, AfterRemove(q, FALSE))
        ELSE IF q.byname THEN Done(w, q, "AttributeError")
        ELSE LET sel == SortedIds(TasksOfMember(w, q.team, target)) IN
             Out(w, [q EXCEPT !.sel = sel,
                       !.pc = IF sel # <<>> THEN "rm_delete" ELSE "rm_remove"])

\* models.py 131-132: task.delete() for the next selected task
RemoveTaskDelete(w, q) ==
    Out([w EXCEPT !.tasks = {x \in @ : x.id # Head(q.sel)}],
        [q EXCEPT !.sel = Tail(q.sel),
                  !.pc = IF Tail(q.sel) # <<>> THEN "rm_delete" ELSE "rm_remove"])

\* models.py 69-70: self.members.remove(user); return True
RemoveMemberRemove(w, q) ==
    Out([w EXCEPT !.members = @ \ {<<q.team, RemoveTarget(q)>>}],
        AfterRemove(q, TRUE))

\* views.py 349-353: what the leave button reports for the value
\* remove_member returned.
LeaveTeamMessage(res) ==
    IF res = "true" THEN "You have left the team."
    ELSE "Owner cannot leave the team."

\* ----------------------------------------------------- Team.delete_team
\* Variant: the tasks of the team survive it.
CascadeDeleteTeamKeepTasks(w, t) ==
    [w EXCEPT !.teams = {x \in @ : x.id # t},
              !.members = {m \in @ : m[1] # t},
              !.invitations = {x \in @ : x.team # t}]

\* Team.delete() with the cascade of its foreign keys (models.py 58, 138,
\* 194): one transaction of the ORM's collector.
CascadeDeleteTeam(w, t) ==
    [w EXCEPT !.teams = {x \in @ : x.id # t},
              !.members = {m \in @ : m[1] # t},
              !.invitations = {x \in @ : x.team # t},
              !.tasks = {x \in @ : x.team # t}]

\* views.py 370-380: EditTeamView.dispatch before the delete button
DeleteTeamViewCheck(w, q) ==
    IF ~TeamExists(w, q.team) THEN Done(w, q, "not_found")
    ELSE IF ~IsMember(w, q.team, q.actor) THEN Done(w, q, "not_member")
    ELSE Out(w, [q EXCEPT !.pc = "dt_delete"])

\* Variant: delete_team does not look at who asks.
DeleteTeamDeleteAnyUser(w, q) ==
    IF ~TeamExists(w, q.team) THEN Done(w, q, "not_found")
    ELSE Done(CascadeDeleteTeam(w, q.team), q, "true")

\* models.py 74-80
DeleteTeamDelete(w, q) ==
    IF ~TeamExists(w, q.team) THEN Done(w, q, "not_found")
    ELSE IF TeamRow(w, q.team).owner = q.actor
         THEN Done(CascadeDeleteTeam(w, q.team), q, "true")
         ELSE Done(w, q, "false")

\* -------------------------------------------------------- Team.edit_team
AfterEditGet(q) ==
    IF q.queue # <<>> THEN "send_check"
    ELSE IF q.rmq # <<>> THEN "rm_check" ELSE "et_save"

\* models.py 116-119: load the acting user and the team, set the new name
\* and description on the loaded instance.
EditTeamGet(w, q) ==
    IF q.actor \notin w.users \/ ~TeamExists(w, q.team)
    THEN Done(w, q, "DoesNotExist")
    ELSE Out(w, [q EXCEPT !.owner = TeamRow(w, q.team).owner,
                          !.pc = AfterEditGet(q)])

\* Variant: the acting user is written as the owner of the team.
EditTeamSaveAsOwner(w, q) ==
    Done([w EXCEPT !.teams = {x \in @ : x.id # q.team} \cup
                      {[id |-> q.team, owner |-> q.actor, name |-> q.name,
                        description |-> q.description]}],
         q, "team")

\* models.py 126-127: team.save() writes the loaded instance: an UPDATE of
\* the row, or an INSERT when the row is gone.
EditTeamSave(w, q) ==
    Done([w EXCEPT !.teams = {x \in @ : x.id # q.team} \cup
                      {[id |-> q.team, owner |-> q.owner, name |-> q.name,
                        description |-> q.description]}],
         q, "team")

\* forms.py 284-311: the errors clean_members collects for the entry at
\* position k of the submitted list.
MemberErrors(w, q, k) ==
    LET member == q.queue[k] IN
    IF \E j \in 1..(k - 1) : q.queue[j] = member THEN {"duplicate"}
    ELSE IF member \notin w.users THEN {"does_not_exist"}
    ELSE IF member = q.actor THEN {"self"}
    ELSE (IF IsMember(w, q.team, member) /\ member # TeamRow(w, q.team).owner
          THEN {"already_member"} ELSE {})
         \cup
         (IF \E x \in w.invitations : x.recipient = member /\ x.team = q.team
          THEN {"pending"} ELSE {})

\* forms.py 253-255: the choices of remove_members, and whether the field
\* is on the form at all.
RemoveChoices(w, q) == MembersOf(w, q.team) \ {q.actor}
HasRemoveField(w, q) == Cardinality(MembersOf(w, q.team)) > 1

\* views.py 370-405 with forms.py 237-321: dispatch, then the form's
\* validation, then form_valid calling Team.edit_team.
EditTeamViewCheck(w, q) ==
    IF ~TeamExists(w, q.team) THEN Done(w, q, "not_found")
    ELSE IF ~IsMember(w, q.team, q.actor) THEN Done(w, q, "not_member")
    ELSE IF \E k \in 1..Len(q.queue) : MemberErrors(w, q, k) # {}
         THEN Done(w, q, "invalid")
    ELSE IF HasRemoveField(w, q)
            /\ \E k \in 1..Len(q.rmq) : q.rmq[k] \notin RemoveChoices(w, q)
         THEN Done(w, q, "invalid")
    ELSE Out(w, [q EXCEPT !.rmq = IF HasRemoveField(w, q) THEN q.rmq ELSE <<>>,
                          !.pc = "et_get"])

\* ---------------------------------------------------------- User.delete
\* Variant: the tasks assigned to the user survive the user.
UserDeleteKeepTasks(w, q) ==
    IF q.user \notin w.users THEN Done(w, q, "DoesNotExist")
    ELSE LET owned == {x.id : x \in {y \in w.teams : y.owner = q.user}} IN
         Done([w EXCEPT
                 !.users = @ \ {q.user},
                 !.teams = {x \in @ : x.id \notin owned},
                 !.members = {m \in @ : m[1] \notin owned /\ m[2] # q.user},
                 !.invitations = {x \in @ : /\ x.team \notin owned
                                            /\ x.sender # q.user
                                            /\ x.recipient # q.user},
                 !.tasks = {x \in @ : x.team \notin owned}],
              q, "deleted")

\* admin.py 7-11: the admin site deletes a User row; the ORM's collector
\* follows on_delete=CASCADE (models.py 57-58, 136-138, 193-194) in one
\* transaction: the teams the user owns with their rows, the user's
\* memberships, the invitations sent by or to the user, the tasks assigned
\* to the user.
UserDelete(w, q) ==
    IF q.user \notin w.users THEN Done(w, q, "DoesNotExist")
    ELSE LET owned == {x.id : x \in {y \in w.teams : y.owner = q.user}} IN
         Done([w EXCEPT
                 !.users = @ \ {q.user},
                 !.teams = {x \in @ : x.id \notin owned},
                 !.members = {m \in @ : m[1] \notin owned /\ m[2] # q.user},
                 !.invitations = {x \in @ : /\ x.team \notin owned
                                            /\ x.sender # q.user
                                            /\ x.recipient # q.user},
                 !.tasks = {x \in @ : /\ x.team \notin owned
                                      /\ x.assigned_to # q.user}],
              q, "deleted")

\* ------------------------------------------------------------ task views
\* models.py 187-190: validate_due_date_not_in_past raises when
\* value < timezone.now()
DueDateInPast(value, time) == value < time

\* Variant: the form accepts any user as assignee.
CreateTaskValidateAnyAssignee(w, q) ==
    IF ~TeamExists(w, q.team) THEN Done(w, q, "not_found")
    ELSE Out(w, [q EXCEPT !.pc = "ctk_save"])

\* views.py 207-215 with forms.py 135-158 and models.py 204-208
CreateTaskValidate(w, q) ==
    IF ~TeamExists(w, q.team) THEN Done(w, q, "not_found")
    ELSE IF DueDateInPast(q.due, w.now) THEN Done(w, q, "invalid")
    ELSE IF q.user \notin MembersOf(w, q.team) THEN Done(w, q, "invalid")
    ELSE IF ~TeamExists(w, q.team2) THEN Done(w, q, "invalid")
    ELSE IF q.user \notin MembersOf(w, q.team2) THEN Done(w, q, "invalid")
    ELSE Out(w, [q EXCEPT !.pc = "ctk_save"])

\* views.py 216-219: task.team = team; task.save()
CreateTaskSave(w, q) ==
    IF ~TeamExists(w, q.team) THEN Done(w, q, "IntegrityError")
    ELSE IF w.nextTask > MaxTasks THEN Blocked(w, q)
    ELSE Done([w EXCEPT !.tasks = @ \cup {[id |-> w.nextTask, team |-> q.team,
                                            assigned_to |-> q.user,
                                            due_date |-> q.due,
                                            created_at |-> w.now,
                                            updated_at |-> w.now,
                                            title |-> q.title,
                                            status |-> q.status,
                                            priority |-> q.priority]},
                        !.nextTask = @ + 1],
              [q EXCEPT !.task = w.nextTask], "created")

\* Variant: the assignee is checked against the task's present team only.
EditTaskCheckOldTeam(w, q) ==
    IF ~TaskExists(w, q.task) THEN Done(w, q, "not_found")
    ELSE LET t == TaskRow(w, q.task).team IN
         IF ~IsMember(w, t, q.actor) THEN Done(w, q, "not_member")
         ELSE IF q.op = "delete_task" THEN Out(w, [q EXCEPT !.pc = "etk_delete"])
         ELSE IF DueDateInPast(q.due, w.now) THEN Done(w, q, "invalid")
         ELSE IF q.user \notin MembersOf(w, t) THEN Done(w, q, "invalid")
         ELSE Out(w, [q EXCEPT !.team = q.team2,
                               !.created = TaskRow(w, q.task).created_at,
                               !.pc = "etk_save"])

\* views.py 236-246, 267-275 with forms.py 198-208 and models.py 204-208
EditTaskCheck(w, q) ==
    IF ~TaskExists(w, q.task) THEN Done(w, q, "not_found")
    ELSE LET t == TaskRow(w, q.task).team IN
         IF ~IsMember(w, t, q.actor) THEN Done(w, q, "not_member")
         ELSE IF q.op = "delete_task" THEN Out(w, [q EXCEPT !.pc = "etk_delete"])
         ELSE IF DueDateInPast(q.due, w.now) THEN Done(w, q, "invalid")
         ELSE IF q.user \notin MembersOf(w, t) THEN Done(w, q, "invalid")
         ELSE IF ~TeamExists(w, q.team2) THEN Done(w, q, "invalid")
         ELSE IF q.user \notin MembersOf(w, q.team2) THEN Done(w, q, "invalid")
         ELSE Out(w, [q EXCEPT !.team = q.team2,
                               !.created = TaskRow(w, q.task).created_at,
                               !.pc = "etk_save"])

\* Variant: saving an edit stamps the creation time again.
EditTaskSaveStamped(w, q) ==
    IF ~TeamExists(w, q.team) THEN Done(w, q, "IntegrityError")
    ELSE Done([w EXCEPT !.tasks = {x \in @ : x.id # q.task} \cup
                           {[id |-> q.task, team |-> q.team,
                             assigned_to |-> q.user, due_date |-> q.due,
                             created_at |-> w.now,
                             updated_at |-> w.now, title |-> q.title,
                             status |-> q.status, priority |-> q.priority]}],
              q, "updated")

\* views.py 248-252 with forms.py 210-215: task.save() writes the loaded
\* instance: an UPDATE of the row, or an INSERT when the row is gone.
EditTaskSave(w, q) ==
    IF ~TeamExists(w, q.team) THEN Done(w, q, "IntegrityError")
    ELSE Done([w EXCEPT !.tasks = {x \in @ : x.id # q.task} \cup
                           {[id |-> q.task, team |-> q.team,
                             assigned_to |-> q.user, due_date |-> q.due,
                             created_at |-> q.created,
                             updated_at |-> w.now, title |-> q.title,
                             status |-> q.status, priority |-> q.priority]}],
              q, "updated")

\* views.py 270-273: self.object.delete()
EditTaskDelete(w, q) ==
    Done([w EXCEPT !.tasks = {x \in @ : x.id # q.task}], q, "deleted")

\* --------------------------------------------------------------- filters
\* The characters of the strings the model uses.
Spell(s) ==
    CASE s = "Ab" -> <<"A", "b">>
      [] s = "Ba" -> <<"B", "a">>
      [] s = "AB" -> <<"A", "B">>
      [] s = "Alpha" -> <<"A", "l", "p", "h", "a">>
      [] s = "Beta" -> <<"B", "e", "t", "a">>
      [] s = "ET" -> <<"E", "T">>
      [] s = "u1" -> <<"u", "1">>
      [] s = "u2" -> <<"u", "2">>
      [] s = "u3" -> <<"u", "3">>
      [] s = "U1" -> <<"U", "1">>
      [] OTHER -> <<>>
LowerChar(c) ==
    CASE c = "A" -> "a" [] c = "B" -> "b" [] c = "E" -> "e"
      [] c = "T" -> "t" [] c = "U" -> "u" [] OTHER -> c
Lower(text) == [i \in DOMAIN text |-> LowerChar(text[i])]

\* Variant: contains, case sensitive.
IContainsExactCase(text, sub) ==
    LET a == Spell(text)
        b == Spell(sub)
    IN  \E i \in 0..(Len(a) - Len(b)) : SubSeq(a, i + 1, i + Len(b)) = b

\* lookup_expr='icontains' (filters.py 43, 49, 85, 94)
IContains(text, sub) ==
    LET a == Lower(Spell(text))
        b == Lower(Spell(sub))
    IN  \E i \in 0..(Len(a) - Len(b)) : SubSeq(a, i + 1, i + Len(b)) = b

\* filters.py 39-51, 85-96: the lookup each declared filter makes.
FilterLookup(w, name, k, v) ==
    CASE name = "title__icontains" -> IContains(k.title, v)
      [] name = "status" -> k.status = v
      [] name = "priority" -> k.priority = v
      [] name = "startDate" -> k.due_date >= v
      [] name = "endDate" -> k.due_date <= v
      [] name = "team__name" -> IContains(TeamRow(w, k.team).name, v)
      [] name = "assigned_to__username" -> IContains(k.assigned_to, v)

\* FilterSet.qs: the queryset narrowed by each declared filter whose field
\* is filled in; a field the filter set does not declare is not looked at.
RECURSIVE FilterQueryset(_, _, _, _)
FilterQueryset(w, qs, names, f) ==
    IF names = <<>> THEN qs
    ELSE LET name == Head(names)
             rest == IF name \in f.given
                     THEN {k \in qs : FilterLookup(w, name, k, f[name])}
                     ELSE qs
         IN  FilterQueryset(w, rest, Tail(names), f)

\* filters.py 39-51
DashboardTaskFilter(w, qs, f) ==
    FilterQueryset(w, qs, <<"priority", "startDate", "endDate", "team__name",
                            "title__icontains", "status">>, f)
\* filters.py 85-96
TeamTaskFilter(w, qs, f) ==
    FilterQueryset(w, qs, <<"assigned_to__username", "priority", "startDate",
                            "endDate", "title__icontains", "status">>, f)

\* views.py 76-81: DashboardView.get_queryset
DashboardTasks(w, user, f) ==
    DashboardTaskFilter(w, {k \in w.tasks : k.assigned_to = user}, f)
\* views.py 328-339: TeamDetailView.get_context_data
TeamDetailTasks(w, t, f) ==
    TeamTaskFilter(w, {k \in w.tasks : k.team = t}, f)

\* ---------------------------------------------------------- statements
\* The statement a request at q.pc executes next.
Step(w, q) ==
    CASE q.pc = "ct_save" -> CreateTeamSave(w, q)
      [] q.pc = "ct_add_owner" -> CreateTeamAddOwner(w, q)
      [] q.pc = "send_check" -> SendInvitationCheck(w, q)
      [] q.pc = "send_create" -> SendInvitationCreate(w, q)
      [] q.pc = "inv_get" -> InvitationGet(w, q)
      [] q.pc = "acc_add" -> AcceptAdd(w, q)
      [] q.pc = "inv_delete" -> InvitationDelete(w, q)
      [] q.pc = "rm_check" -> RemoveMemberCheck(w, q)
      [] q.pc = "rm_delete" -> RemoveTaskDelete(w, q)
      [] q.pc = "rm_remove" -> RemoveMemberRemove(w, q)
      [] q.pc = "dtv_check" -> DeleteTeamViewCheck(w, q)
      [] q.pc = "dt_delete" -> DeleteTeamDelete(w, q)
      [] q.pc = "et_get" -> EditTeamGet(w, q)
      [] q.pc = "et_save" -> EditTeamSave(w, q)
      [] q.pc = "etv_check" -> EditTeamViewCheck(w, q)
      [] q.pc = "ctk_validate" -> CreateTaskValidate(w, q)
      [] q.pc = "ctk_save" -> CreateTaskSave(w, q)
      [] q.pc = "etk_check" -> EditTaskCheck(w, q)
      [] q.pc = "etk_save" -> EditTaskSave(w, q)
      [] q.pc = "etk_delete" -> EditTaskDelete(w, q)
      [] q.pc = "du_delete" -> UserDelete(w, q)
      [] OTHER -> Blocked(w, q)

\* A handler run from q to its end without interruption.
RECURSIVE Run(_, _)
Run(w, q) ==
    IF q.pc \in {"done", "blocked"} THEN Out(w, q)
    ELSE LET o == Step(w, q) IN Run(o.w, o.q)

\* ------------------------------------------------------------- requests
\* The locals a handler starts with, from the arguments of the call or
\* the fields of the submitted form.
CreateTeamReq(owner, label, invitees, message) ==
    [Idle EXCEPT !.pc = "ct_save", !.op = "create_team", !.actor = owner,
                 !.name = label.name, !.description = label.description,
                 !.queue = invitees, !.message = message]
EditTeamReq(t, user, label, invitees, message, remove) ==
    [Idle EXCEPT !.pc = "et_get", !.op = "edit_team", !.team = t,
                 !.actor = user, !.name = label.name,
                 !.description = label.description, !.queue = invitees,
                 !.message = message, !.rmq = remove]
EditTeamViewReq(t, user, label, invitees, message, remove) ==
    [EditTeamReq(t, user, label, invitees, message, remove)
        EXCEPT !.pc = "etv_check", !.op = "edit_team_view"]
SendInvitationReq(t, sender, recipient, message) ==
    [Idle EXCEPT !.pc = "send_check", !.op = "send_invitation", !.team = t,
                 !.actor = sender, !.queue = <<recipient>>,
                 !.message = message]
AcceptReq(i, user) ==
    [Idle EXCEPT !.pc = "inv_get", !.op = "accept_invitation", !.inv = i,
                 !.actor = user]
DeclineReq(i, user) ==
    [Idle EXCEPT !.pc = "inv_get", !.op = "decline_invitation", !.inv = i,
                 !.actor = user]
RemoveMemberReq(t, user, byname) ==
    [Idle EXCEPT !.pc = "rm_check", !.op = "remove_member", !.team = t,
                 !.user = user, !.byname = byname]
LeaveTeamReq(t, user) ==
    [Idle EXCEPT !.pc = "rm_check", !.op = "leave_team", !.team = t,
                 !.actor = user, !.user = user]
DeleteTeamReq(t, user) ==
    [Idle EXCEPT !.pc = "dt_delete", !.op = "delete_team", !.team = t,
                 !.actor = user]
DeleteTeamViewReq(t, user) ==
    [Idle EXCEPT !.pc = "dtv_check", !.op = "delete_team_view", !.team = t,
                 !.actor = user]
CreateTaskReq(t, user, posted, assignee) ==
    [Idle EXCEPT !.pc = "ctk_validate", !.op = "create_task", !.team = t,
                 !.actor = user, !.team2 = posted, !.user = assignee,
                 !.due = Future, !.title = TaskLabel.title,
                 !.status = TaskLabel.status, !.priority = TaskLabel.priority]
EditTaskReq(k, user, posted, assignee) ==
    [Idle EXCEPT !.pc = "etk_check", !.op = "edit_task", !.task = k,
                 !.actor = user, !.team2 = posted, !.user = assignee,
                 !.due = Future, !.title = TaskLabel.title,
                 !.status = TaskLabel.status, !.priority = TaskLabel.priority]
DeleteUserReq(user) ==
    [Idle EXCEPT !.pc = "du_delete", !.op = "delete_user", !.user = user]
CreateTaskFullReq(t, user, assignee, due, label) ==
    [CreateTaskReq(t, user, t, assignee)
        EXCEPT !.due = due, !.title = label.title, !.status = label.status,
               !.priority = label.priority]
\* the same forms with the due date the user picked
CreateTaskDueReq(t, user, assignee, due) ==
    [CreateTaskReq(t, user, t, assignee) EXCEPT !.due = due]
EditTaskDueReq(k, user, posted, assignee, due) ==
    [EditTaskReq(k, user, posted, assignee) EXCEPT !.due = due]
DeleteTaskReq(k, user) ==
    [Idle EXCEPT !.pc = "etk_check", !.op = "delete_task", !.task = k,
                 !.actor = user]

\* The primary keys a request can name: those of the rows that exist and,
\* where the key comes in a URL or a form, one that no row carries; for an
\* invitation, every key issued so far (a resolved invitation's button can
\* be pressed again) and the next one.
Teams == {x.id : x \in teams}
TeamIds == Teams \cup {nextTeam}
InvIds == 1..nextInv
TaskIds == {x.id : x \in tasks} \cup {nextTask}

\* What is recorded of a finished request: what it named and its result.
NoRequest == [op |-> "none", team |-> 0, actor |-> "", user |-> "", inv |-> 0,
              task |-> 0, result |-> "", shown |-> {}]
Outcome(q) ==
    [op |-> q.op, team |-> q.team, actor |-> q.actor, user |-> q.user,
     inv |-> q.inv, task |-> q.task, result |-> q.result, shown |-> {}]

Install(w) ==
    /\ teams' = w.teams
    /\ members' = w.members
    /\ invitations' = w.invitations
    /\ tasks' = w.tasks
    /\ nextTeam' = w.nextTeam
    /\ nextInv' = w.nextInv
    /\ nextTask' = w.nextTask
    /\ now' = w.now
    /\ users' = w.users

\* The server takes the next request when the response to the one before
\* has been sent.
Ready == served < MaxServed /\ last = NoRequest

\* Serve the request q0 from its first statement to its last.
Serve(q0) ==
    /\ served' = served + 1
    /\ LET o == Run(Store, q0) IN
        /\ o.q.pc = "done"
        /\ Install(o.w)
        /\ last' = Outcome(o.q)
    /\ UNCHANGED req

Init ==
    /\ teams = {}
    /\ members = {}
    /\ invitations = {}
    /\ tasks = {}
    /\ nextTeam = 1
    /\ nextInv = 1
    /\ nextTask = 1
    /\ now = 0
    /\ users = Users
    /\ req = [r \in Requests |-> Idle]
    /\ last = NoRequest
    /\ served = 0

CreateTeam ==
    /\ Ready
    /\ \E owner \in Creators, in \in CreateInputs :
            Serve(CreateTeamReq(owner, CreateLabel, in.invitees, in.message))
EditTeam ==
    /\ Ready
    /\ \E t \in Teams, user \in Senders, in \in EditInputs :
            Serve(EditTeamReq(t, user, EditLabel, in.invitees, None, in.remove))
EditTeamView ==
    /\ Ready
    /\ \E t \in TeamIds, user \in Users, in \in EditInputs :
            Serve(EditTeamViewReq(t, user, EditLabel, in.invitees, None,
                                  in.remove))
SendInvitation ==
    /\ Ready
    /\ \E t \in Teams, sender \in Senders, recipient \in Usernames :
            Serve(SendInvitationReq(t, sender, recipient, None))
AcceptInvitation ==
    /\ Ready
    /\ \E i \in InvIds, user \in Users : Serve(AcceptReq(i, user))
DeclineInvitation ==
    /\ Ready
    /\ \E i \in InvIds, user \in Users : Serve(DeclineReq(i, user))
RemoveMember ==
    /\ Ready
    /\ \E t \in Teams, user \in Users, byname \in BOOLEAN :
            Serve(RemoveMemberReq(t, user, byname))
LeaveTeam ==
    /\ Ready
    /\ \E t \in TeamIds, user \in Users : Serve(LeaveTeamReq(t, user))
DeleteTeam ==
    /\ Ready
    /\ \E t \in Teams, user \in Users : Serve(DeleteTeamReq(t, user))
DeleteTeamView ==
    /\ Ready
    /\ \E t \in TeamIds, user \in Users : Serve(DeleteTeamViewReq(t, user))
CreateTask ==
    /\ Ready
    /\ \E t \in TeamIds, posted \in Teams, user \in TaskActors,
          assignee \in Assignees :
            Serve(CreateTaskReq(t, user, posted, assignee))
EditTask ==
    /\ Ready
    /\ \E k \in TaskIds, posted \in Teams, user \in TaskActors,
          assignee \in Assignees :
            Serve(EditTaskReq(k, user, posted, assignee))
DeleteTask ==
    /\ Ready
    /\ \E k \in TaskIds, user \in TaskActors : Serve(DeleteTaskReq(k, user))

\* The response has been delivered.
Return ==
    /\ last # NoRequest
    /\ last' = NoRequest
    /\ UNCHANGED <<db, req, served>>

Next ==
    \/ CreateTeam
    \/ EditTeam
    \/ EditTeamView
    \/ SendInvitation
    \/ AcceptInvitation
    \/ DeclineInvitation
    \/ RemoveMember
    \/ LeaveTeam
    \/ DeleteTeam
    \/ DeleteTeamView
    \/ CreateTask
    \/ EditTask
    \/ DeleteTask
    \/ Return

\* Requests served one after the other, each from start to end.
Spec == Init /\ [][Next]_vars

\* ------------------------------------------------- concurrent requests
\* Worker r is the first free worker, and a request may still arrive.
Free(r) ==
    /\ served < MaxConcServed
    /\ req[r].pc = "idle"
    /\ \A r2 \in Requests : r2 < r => req[r2].pc # "idle"

\* A request arrives at worker r and executes its first statement.
Begin(r, q0) ==
    /\ served' = served + 1
    /\ LET o == Step(Store, q0) IN
        /\ o.q.pc # "blocked"
        /\ Install(o.w)
        /\ req' = [req EXCEPT ![r] = o.q]
    /\ UNCHANGED last

\* A request in flight executes its next statement.
Statement(r) ==
    /\ req[r].pc \notin {"idle", "done", "blocked"}
    /\ LET o == Step(Store, req[r]) IN
        /\ o.q.pc # "blocked"
        /\ Install(o.w)
        /\ req' = [req EXCEPT ![r] = o.q]
    /\ UNCHANGED <<last, served>>

\* The response of a finished request has been delivered.
Deliver(r) ==
    /\ req[r].pc = "done"
    /\ req' = [req EXCEPT ![r] = Idle]
    /\ UNCHANGED <<db, last, served>>

ConcCreateTeam(r) ==
    /\ Free(r)
    /\ \E owner \in Creators, invitees \in ConcInvitees :
            Begin(r, CreateTeamReq(owner, CreateLabel, invitees, None))
ConcSendInvitation(r) ==
    /\ Free(r)
    /\ \E t \in Teams, owner \in Creators, recipient \in ConcRecipients :
            Begin(r, SendInvitationReq(t, owner, recipient, None))
ConcAcceptInvitation(r) ==
    /\ Free(r)
    /\ \E i \in InvIds, user \in ConcRecipients : Begin(r, AcceptReq(i, user))
ConcDeclineInvitation(r) ==
    /\ Free(r)
    /\ \E i \in InvIds, user \in ConcRecipients : Begin(r, DeclineReq(i, user))
ConcRemoveMember(r) ==
    /\ Free(r)
    /\ \E t \in TeamIds, user \in ConcRecipients :
            Begin(r, RemoveMemberReq(t, user, FALSE))

ConcNext ==
    \E r \in Requests :
        \/ ConcCreateTeam(r)
        \/ ConcSendInvitation(r)
        \/ ConcAcceptInvitation(r)
        \/ ConcDeclineInvitation(r)
        \/ ConcRemoveMember(r)
        \/ Statement(r)
        \/ Deliver(r)

\* Requests served concurrently, interleaved statement by statement.
ConcSpec == Init /\ [][ConcNext]_vars

\* ------------------------------------- task writes against removals
\* Worker r is the first free worker, and a request may still arrive.
RaceFree(r) ==
    /\ served < MaxRaceServed
    /\ req[r].pc = "idle"
    /\ \A r2 \in Requests : r2 < r => req[r2].pc # "idle"

RaceCreateTeam(r) ==
    /\ RaceFree(r)
    /\ \E owner \in Creators, invitees \in ConcInvitees :
            Begin(r, CreateTeamReq(owner, CreateLabel, invitees, None))
RaceAcceptInvitation(r) ==
    /\ RaceFree(r)
    /\ \E i \in InvIds, user \in ConcRecipients : Begin(r, AcceptReq(i, user))
RaceRemoveMember(r) ==
    /\ RaceFree(r)
    /\ \E t \in Teams, user \in ConcRecipients :
            Begin(r, RemoveMemberReq(t, user, FALSE))
RaceLeaveTeam(r) ==
    /\ RaceFree(r)
    /\ \E t \in Teams, user \in ConcRecipients : Begin(r, LeaveTeamReq(t, user))
RaceCreateTask(r) ==
    /\ RaceFree(r)
    /\ \E t \in Teams, user \in Creators, assignee \in Assignees :
            Begin(r, CreateTaskReq(t, user, t, assignee))
RaceEditTask(r) ==
    /\ RaceFree(r)
    /\ \E k \in TaskIds, t \in Teams, user \in Creators, assignee \in Assignees :
            Begin(r, EditTaskReq(k, user, t, assignee))

TaskRaceNext ==
    \E r \in Requests :
        \/ RaceCreateTeam(r)
        \/ RaceAcceptInvitation(r)
        \/ RaceRemoveMember(r)
        \/ RaceLeaveTeam(r)
        \/ RaceCreateTask(r)
        \/ RaceEditTask(r)
        \/ Statement(r)
        \/ Deliver(r)

\* Task forms submitted while members are removed or leave, interleaved
\* statement by statement.
TaskRaceSpec == Init /\ [][TaskRaceNext]_vars

\* --------------------------------------------- tasks under the clock
\* Time passes: timezone.now() returns a later time (the clock of the
\* server is taken never to run backwards).
Tick ==
    /\ now < MaxClock
    /\ now' = now + 1
    /\ UNCHANGED <<teams, members, invitations, tasks, nextTeam, nextInv,
                   nextTask, users, req, last, served>>

ClockCreateTeam ==
    /\ Ready
    /\ \E owner \in Creators : Serve(CreateTeamReq(owner, CreateLabel, <<>>, None))
ClockCreateTask ==
    /\ Ready
    /\ \E t \in Teams, user \in Creators, due \in Dues :
            Serve(CreateTaskDueReq(t, user, user, due))
ClockEditTask ==
    /\ Ready
    /\ \E k \in TaskIds, t \in Teams, user \in Creators, due \in Dues :
            Serve(EditTaskDueReq(k, user, t, user, due))
ClockDeleteTask ==
    /\ Ready
    /\ \E k \in TaskIds, user \in Creators : Serve(DeleteTaskReq(k, user))

ClockNext ==
    \/ ClockCreateTeam
    \/ ClockCreateTask
    \/ ClockEditTask
    \/ ClockDeleteTask
    \/ Tick
    \/ Return

\* Task forms served one after the other while time passes.
ClockSpec == Init /\ [][ClockNext]_vars

\* ------------------------------------------------- users being deleted
DeleteUser ==
    /\ Ready
    /\ \E user \in Users : Serve(DeleteUserReq(user))

AdminNext ==
    \/ Next
    \/ DeleteUser

\* The requests of Spec, and the admin site deleting users.
AdminSpec == Init /\ [][AdminNext]_vars

\* ---------------------------------------------------- filtered pages
FilterCreateTeam ==
    /\ Ready
    /\ \E owner \in Creators, label \in {CreateLabel, EditLabel} :
            Serve(CreateTeamReq(owner, label, <<"u2">>, None))
FilterAcceptInvitation ==
    /\ Ready
    /\ \E i \in InvIds : Serve(AcceptReq(i, "u2"))
FilterCreateTask ==
    /\ Ready
    /\ \E t \in Teams, user \in Creators, in \in TaskForms :
            Serve(CreateTaskFullReq(t, user, in.assignee, in.due, in.label))
\* views.py 70-81: the dashboard page of a user, filtered
DashboardQuery ==
    /\ last = NoRequest
    /\ \E user \in Assignees, f \in PageFilters :
        last' = [NoRequest EXCEPT
                    !.op = "dashboard", !.actor = user, !.result = "shown",
                    !.shown = {k.id : k \in DashboardTasks(Store, user, f)}]
    /\ UNCHANGED <<db, req, served>>
\* views.py 309-341: the page of a team, filtered, shown to a member
TeamDetailQuery ==
    /\ last = NoRequest
    /\ \E t \in Teams, user \in Assignees, f \in PageFilters :
        /\ IsMember(Store, t, user)
        /\ last' = [NoRequest EXCEPT
                    !.op = "team_detail", !.actor = user, !.team = t,
                    !.result = "shown",
                    !.shown = {k.id : k \in TeamDetailTasks(Store, t, f)}]
    /\ UNCHANGED <<db, req, served>>

FilterNext ==
    \/ FilterCreateTeam
    \/ FilterAcceptInvitation
    \/ FilterCreateTask
    \/ DashboardQuery
    \/ TeamDetailQuery
    \/ Return

\* Teams and tasks are created, and the task pages are asked for with
\* filters.
FilterSpec == Init /\ [][FilterNext]_vars

\* =============================================================== claims
\* C1: in every state every existing team has its owner among its members,
\* whether the calls before succeeded, returned false or raised part-way.
OwnerInMembers == \A x \in teams : <<x.id, x.owner>> \in members

\* C2: after any sequence of completed operations, the user every existing
\* task is assigned to is a member of the task's team.
AssigneeIsMember == \A k \in tasks : <<k.team, k.assigned_to>> \in members
\* A member has left a team that still exists, and the task there was is
\* gone with the member.
AssigneeIsMemberWitness ==
    /\ last.op = "leave_team"
    /\ last.result = "true"
    /\ nextTask > 1
    /\ tasks = {}
    /\ \E x \in teams : x.id = last.team

\* C3: at most one invitation exists for a (recipient, team) pair in every
\* state, concurrent sends included; the creation of a second one is
\* rejected and leaves the invitations as they were.
OneInvitationPerPair ==
    /\ [](\A x, y \in invitations :
            (x.recipient = y.recipient /\ x.team = y.team) => x = y)
    /\ [][\A r \in Requests :
            (/\ req[r].pc = "send_create"
             /\ req'[r] # req[r]
             /\ \E x \in invitations :
                    x.recipient = Head(req[r].queue) /\ x.team = req[r].team)
            => /\ req'[r].pc = "done"
               /\ req'[r].result = "IntegrityError"
               /\ invitations' = invitations]_vars
\* Two sends for the same pair were in flight together: one created the
\* invitation, the other was rejected.
OneInvitationPerPairWitness ==
    /\ req[1].op = "send_invitation" /\ req[2].op = "send_invitation"
    /\ req[1].pc = "done" /\ req[2].pc = "done"
    /\ req[1].result = "true"
    /\ req[2].result = "IntegrityError"
    /\ req[1].team = req[2].team
    /\ req[1].queue = req[2].queue
    /\ \E x \in invitations :
            x.team = req[2].team /\ x.recipient = Head(req[2].queue)

\* C4: the sender of every existing invitation is the owner of its team.
SenderIsOwner ==
    \A x \in invitations : \E t \in teams : t.id = x.team /\ t.owner = x.sender

\* C5: the recipient of every existing invitation is not a member of its
\* team.
RecipientNotMember ==
    \A x \in invitations : <<x.team, x.recipient>> \notin members

\* C6: no invitation exists whose sender is its recipient.
NoSelfInvitation == \A x \in invitations : x.sender # x.recipient

DeleteTeamFrame ==
    [][(last'.op \in {"delete_team", "delete_team_view"}
        /\ last'.result = "true")
        => /\ \E x \in teams : x.id = last'.team
           /\ teams' = {x \in teams : x.id # last'.team}
           /\ tasks' = {k \in tasks : k.team # last'.team}
           /\ invitations' = {x \in invitations : x.team # last'.team}
           /\ members' = {m \in members : m[1] # last'.team}]_vars
\* A team with a task and an invitation was deleted, the invitation of
\* another team is still there.
DeleteTeamFrameWitness ==
    /\ last.op = "delete_team"
    /\ last.result = "true"
    /\ nextTask = 2
    /\ tasks = {}
    /\ nextInv = 3
    /\ \E x \in invitations : x.team # last.team
    /\ \E x \in teams : x.id # last.team

\* C9: no state, one a concurrent request can see included, has the
\* recipient of an invitation that is being accepted among the members of
\* the team while the invitation still exists.
AcceptAtomic ==
    \A r \in Requests :
        (req[r].op = "accept_invitation" /\ req[r].pc \notin {"idle", "done"})
        => ~ \E x \in invitations :
                x.id = req[r].inv /\ <<x.team, x.recipient>> \in members

\* C10: after accept_invitation by the recipient succeeds, the members are
\* the previous members and the recipient in the invitation's team, the
\* invitation is gone, and no other invitation, team or task has changed.
AcceptEffect ==
    [][(last'.op = "accept_invitation" /\ last'.result = "accepted")
        => \E i \in invitations :
            /\ i.id = last'.inv
            /\ i.recipient = last'.actor
            /\ members' = members \cup {<<i.team, i.recipient>>}
            /\ invitations' = invitations \ {i}
            /\ teams' = teams
            /\ tasks' = tasks]_vars
\* An invitation was accepted by its recipient, who is now a member, while
\* an invitation to another team is still pending.
AcceptEffectWitness ==
    /\ last.op = "accept_invitation"
    /\ last.result = "accepted"
    /\ <<last.team, last.actor>> \in members
    /\ \E x \in invitations : x.team # last.team

\* C11: accept_invitation and decline_invitation called by a user who is
\* not the recipient of the invitation (its sender included) fail with
\* PermissionDenied and change nothing.
\* Stated of every store in which the next request is served.
OnlyRecipientResolves ==
    last = NoRequest =>
    \A i \in invitations : \A u \in Users \ {i.recipient} :
        \A q0 \in {AcceptReq(i.id, u), DeclineReq(i.id, u)} :
            LET o == Run(Store, q0) IN
            o.q.result = "PermissionDenied" /\ o.w = Store
\* The sender of a pending invitation has just been refused.
OnlyRecipientResolvesWitness ==
    /\ last.result = "PermissionDenied"
    /\ last.op \in {"accept_invitation", "decline_invitation"}
    /\ \E i \in invitations : i.sender # i.recipient

\* C12: a decline_invitation that succeeds deletes that invitation and
\* nothing else: members, tasks, teams and the other invitations are
\* unchanged, and the recipient is not a member of the team afterwards.
DeclineFrame ==
    [][(last'.op = "decline_invitation" /\ last'.result = "declined")
        => \E i \in invitations :
            /\ i.id = last'.inv
            /\ invitations' = invitations \ {i}
            /\ members' = members
            /\ tasks' = tasks
            /\ teams' = teams
            /\ <<i.team, i.recipient>> \notin members']_vars

\* C13: an invitation is resolved at most once: an accept or decline that
\* succeeds removes it, its key is never carried by a row again, and every
\* accept or decline naming a key issued earlier whose invitation is gone
\* is answered not found and changes nothing.
ResolvedOnce ==
    /\ [](\A i \in 1..(nextInv - 1) : \A u \in Users :
            (~ \E x \in invitations : x.id = i)
            => \A q0 \in {AcceptReq(i, u), DeclineReq(i, u)} :
                LET o == Run(Store, q0) IN
                o.q.result = "not_found" /\ o.w = Store)
    /\ [][/\ \A x \in invitations' :
                x \in invitations \/ x.id >= nextInv
          /\ (last'.result \in {"accepted", "declined"})
                => ~ \E x \in invitations' : x.id = last'.inv]_vars
\* An invitation was issued and resolved, and a later request naming it has
\* just been answered not found.
ResolvedOnceWitness ==
    /\ last.op \in {"accept_invitation", "decline_invitation"}
    /\ last.result = "not_found"
    /\ last.inv < nextInv
    /\ teams # {}

\* C14: remove_member returns false and changes nothing when the user is
\* the owner of the team or is not a member of it; it returns true only
\* when it has removed a member who is not the owner.
\* Stated of every store in which the next request is served.
RemoveMemberRefusal ==
    last = NoRequest =>
    \A x \in teams : \A u \in Users : \A byname \in BOOLEAN :
        LET o == Run(Store, RemoveMemberReq(x.id, u, byname))
            member == <<x.id, u>> \in members
        IN  /\ (u = x.owner \/ ~member)
                => (o.q.result = "false" /\ o.w = Store)
            /\ o.q.result = "true"
                => (u # x.owner /\ member /\ <<x.id, u>> \notin o.w.members)
\* The removal of the owner, who has a task in the team, was refused.
RemoveMemberRefusalWitness ==
    /\ last.op = "remove_member"
    /\ last.result = "false"
    /\ \E x \in teams : x.id = last.team /\ x.owner = last.user
    /\ <<last.team, last.user>> \in members
    /\ \E k \in tasks : k.team = last.team /\ k.assigned_to = last.user

\* C15: delete_team asked for by a user who is not the owner of the team (a
\* member or not) returns false and changes nothing, and the delete button
\* pressed by such a user changes nothing either; asked for by the owner,
\* delete_team returns true and the team no longer exists.
\* Stated of every store in which the next request is served.
DeleteTeamByOwnerOnly ==
    last = NoRequest =>
    \A x \in teams : \A u \in Users :
        LET o == Run(Store, DeleteTeamReq(x.id, u))
            v == Run(Store, DeleteTeamViewReq(x.id, u))
        IN  IF u = x.owner
            THEN o.q.result = "true" /\ ~TeamExists(o.w, x.id)
            ELSE /\ o.q.result = "false" /\ o.w = Store
                 /\ v.q.result \in {"false", "not_member"} /\ v.w = Store
\* A member who is not the owner was refused, the team and its task are
\* still there.
DeleteTeamByOwnerOnlyWitness ==
    /\ last.op = "delete_team"
    /\ last.result = "false"
    /\ <<last.team, last.actor>> \in members
    /\ \E x \in teams : x.id = last.team /\ x.owner # last.actor
    /\ \E k \in tasks : k.team = last.team

\* C16: when the owner presses the leave button the members stay as they
\* are and the failure reported differs from the one reported to a user who
\* is not a member; a member who is not the owner is removed and is told so.
OwnerCannotLeave ==
    \A x \in teams : \A u \in Users :
        LET o == Run(Store, LeaveTeamReq(x.id, u))
            own == Run(Store, LeaveTeamReq(x.id, x.owner))
        IN  /\ own.w.members = members
            /\ <<x.id, u>> \notin members
                => LeaveTeamMessage(o.q.result)
                        # LeaveTeamMessage(own.q.result)
            /\ (<<x.id, u>> \in members /\ u # x.owner)
                => /\ <<x.id, u>> \notin o.w.members
                   /\ LeaveTeamMessage(o.q.result) = "You have left the team."

\* C17: only the owner of a team can change it: Team.edit_team or the
\* edit-team form submitted by a user who is not the owner changes neither
\* the name nor the description, creates no invitation and removes no member.
OnlyOwnerEdits ==
    \A x \in teams : \A u \in Users \ {x.owner} : \A in \in EditInputs :
        \A q0 \in {EditTeamReq(x.id, u, EditLabel, in.invitees, None,
                               in.remove),
                   EditTeamViewReq(x.id, u, EditLabel, in.invitees, None,
                                   in.remove)} :
            LET o == Run(Store, q0) IN
            /\ o.w.teams = teams
            /\ o.w.invitations = invitations
            /\ o.w.members = members

\* C18: create_team with invitees that are distinct existing users other
\* than the owner adds one team whose members are exactly the owner and,
\* for each invitee, exactly one invitation to that team with the owner as
\* sender and the given message; no invitee is a member of it, and nothing
\* else changes.
\* Stated of every store in which the next request is served.
CreateTeamEffect ==
    last = NoRequest =>
    \A owner \in Creators : \A in \in CreateInputs :
        LET n == Len(in.invitees)
            o == Run(Store, CreateTeamReq(owner, CreateLabel, in.invitees,
                                          in.message))
            t == nextTeam
            new == {x \in o.w.invitations : x.team = t}
        IN  (/\ \A j \in 1..n : in.invitees[j] \in Users \ {owner}
             /\ \A j, k \in 1..n : in.invitees[j] = in.invitees[k] => j = k
             /\ o.q.pc = "done")
            => /\ o.q.result = "team"
               /\ o.w.teams = teams \cup
                    {[id |-> t, owner |-> owner, name |-> CreateLabel.name,
                      description |-> CreateLabel.description]}
               /\ o.w.members = members \cup {<<t, owner>>}
               /\ o.w.invitations = invitations \cup new
               /\ o.w.tasks = tasks
               /\ Cardinality(new) = n
               /\ \A j \in 1..n : \E x \in new :
                    /\ x.recipient = in.invitees[j]
                    /\ x.sender = owner
                    /\ x.message = IF in.message = None THEN ""
                                   ELSE in.message
\* A team was created with two invitees: both are invited with the message
\* and the owner is the only member.
CreateTeamEffectWitness ==
    /\ last.op = "create_team"
    /\ last.result = "team"
    /\ {m \in members : m[1] = last.team} = {<<last.team, last.actor>>}
    /\ {x.recipient : x \in {y \in invitations :
            y.team = last.team /\ y.message = "join"
            /\ y.sender = last.actor}} = {"u2", "u3"}

\* C19: create_team succeeds whatever the invitees are: it returns a team
\* that is stored and has the owner among its members, and every listed
\* invitee that is an existing user other than the owner is invited, also
\* when another entry of the list is unknown, repeated or the owner.
CreateTeamTolerant ==
    \A owner \in Creators : \A in \in CreateInputs :
        LET o == Run(Store, CreateTeamReq(owner, CreateLabel, in.invitees,
                                          in.message))
            t == nextTeam
        IN  o.q.pc = "done"
            => /\ o.q.result = "team"
               /\ TeamExists(o.w, t)
               /\ <<t, owner>> \in o.w.members
               /\ \A j \in 1..Len(in.invitees) :
                    in.invitees[j] \in Users \ {owner}
                    => \E x \in o.w.invitations :
                        x.team = t /\ x.recipient = in.invitees[j]

\* C20: the invitee list of an edit-team submission is resolved all or
\* nothing: when some entry is repeated, names no user, names the acting
\* user, has a pending invitation to the team or is already a member of it,
\* the submission is rejected and the store is left as it was (no
\* invitation created, no member removed, no team field changed).
BatchAllOrNothing ==
    \A t \in Teams, user \in Users, rm \in {<<>>, <<"u2">>} :
    \A invitees \in {<<a>> : a \in Usernames}
                    \cup {<<a, b>> : a \in Usernames, b \in Usernames} :
        LET n == Len(invitees)
            o == Run(Store, EditTeamViewReq(t, user, EditLabel, invitees,
                                            None, rm))
            Bad(k) ==
                \/ \E j \in 1..n : j # k /\ invitees[j] = invitees[k]
                \/ invitees[k] \notin Users
                \/ invitees[k] = user
                \/ \E x \in invitations :
                        x.team = t /\ x.recipient = invitees[k]
                \/ IsMember(Store, t, invitees[k])
        IN  (o.q.pc = "done" /\ \E k \in 1..n : Bad(k))
            => /\ o.q.result \in {"invalid", "not_member"}
               /\ o.w = Store

\* C21: a create-task form whose assignee is not a member of the team the
\* task is created in, and an edit-task form whose assignee is not a member
\* of the team submitted with the edit, are refused as invalid: no task is
\* added and the existing task, like the rest of the store, is unchanged.
\* Stated of every store in which the next request is served.
AssigneeValidated ==
    last = NoRequest =>
    \A posted \in Teams, user \in TaskActors, assignee \in Users :
        /\ \A t \in Teams :
            LET o == Run(Store, CreateTaskReq(t, user, posted, assignee)) IN
            assignee \notin MembersOf(Store, t)
                => o.q.result = "invalid" /\ o.w = Store
        /\ \A k \in tasks :
            LET o == Run(Store, EditTaskReq(k.id, user, posted, assignee)) IN
            assignee \notin MembersOf(Store, posted)
                => /\ o.q.result = IF IsMember(Store, k.team, user)
                                   THEN "invalid" ELSE "not_member"
                   /\ o.w = Store
\* An edit was refused though the editor and the assignee are both members
\* of the task's team: the assignee is not a member of the submitted team.
AssigneeValidatedWitness ==
    /\ last.op = "edit_task"
    /\ last.result = "invalid"
    /\ \E k \in tasks :
        /\ k.id = last.task
        /\ IsMember(Store, k.team, last.actor)
        /\ IsMember(Store, k.team, last.user)

\* C24: a create-task, edit-task or delete-task request made by a user who
\* is not a member of the team concerned creates no task and changes or
\* deletes no task.
TaskOpsByMembers ==
    \A user \in Users, posted \in Teams, assignee \in Users :
        /\ \A t \in Teams :
            ~IsMember(Store, t, user)
            => Run(Store, CreateTaskReq(t, user, posted, assignee)).w.tasks
               = tasks
        /\ \A k \in tasks :
            ~IsMember(Store, k.team, user)
            => /\ Run(Store, EditTaskReq(k.id, user, posted, assignee)).w.tasks
                  = tasks
               /\ Run(Store, DeleteTaskReq(k.id, user)).w.tasks = tasks

\* C27: edit_team is all or nothing: a call that ends with an exception
\* (an unknown invitee, an invitee who already has an invitation to the
\* team, a name handed to remove_member) leaves the store as it was: no
\* invitation of the same call persists, no member is removed, and the
\* team's name and description are unchanged.
EditTeamAtomic ==
    \A t \in Teams, user \in Senders, in \in EditInputs :
        LET o == Run(Store, EditTeamReq(t, user, EditLabel, in.invitees, None,
                                        in.remove))
        IN  (o.q.pc = "done" /\ o.q.result # "team") => o.w = Store

\* C29: a user becomes a member of a team only as the owner of the team
\* being created, or by accepting, as its recipient, an invitation to that
\* team: no request adds any other row to Team.members.
MembersByOwnershipOrAcceptance ==
    [][\A m \in members' \ members :
        \/ /\ last'.op = "create_team"
           /\ m = <<last'.team, last'.actor>>
           /\ \E x \in teams' \ teams : x.id = m[1] /\ x.owner = m[2]
        \/ /\ last'.op = "accept_invitation"
           /\ last'.actor = m[2]
           /\ \E i \in invitations \ invitations' :
                i.id = last'.inv /\ i.recipient = m[2] /\ i.team = m[1]]_vars
\* A user who does not own the team has just become a member of it by
\* accepting, while the owner is a member since the creation.
MembersByOwnershipOrAcceptanceWitness ==
    /\ last.op = "accept_invitation"
    /\ last.result = "accepted"
    /\ <<last.team, last.actor>> \in members
    /\ \E x \in teams :
        x.id = last.team /\ x.owner # last.actor
        /\ <<x.id, x.owner>> \in members

\* C30: the owner of a team never changes: as long as the team exists its
\* owner is the one recorded at creation, whatever request is served and
\* whoever makes it (a primary key is never given to a second team).
OwnerNeverChanges ==
    [][/\ \A x \in teams, y \in teams' : x.id = y.id => y.owner = x.owner
       /\ \A y \in teams' \ teams : y.id \notin Teams => y.id >= nextTeam
       /\ nextTeam' >= nextTeam]_vars
\* A member who is not the owner has just edited the team: the name is the
\* new one and the owner is still the creator.
OwnerNeverChangesWitness ==
    /\ last.op \in {"edit_team", "edit_team_view"}
    /\ last.result = "team"
    /\ \E x \in teams :
        /\ x.id = last.team
        /\ x.name = EditLabel.name
        /\ x.owner # last.actor
        /\ x.owner \in Creators

\* C28: when a create-task request assigning user U in team T is interleaved,
\* statement by statement, with remove_member(T, U), then once both have
\* finished no task of T is assigned to U while U is not a member of T.
NoTaskOfRemovedMember ==
    (\A r \in Requests : req[r].pc \in {"idle", "done"})
    => \A k \in tasks : IsMember(Store, k.team, k.assigned_to)

\* C22: task validation accepts a due date only if it is strictly after the
\* present time: a create-task form with due date d served at time now is
\* refused, and nothing is stored, when d <= now (d = now included), and it
\* is accepted when d > now.
DueDateStrictlyFuture ==
    \A t \in Teams, user \in Creators, due \in Dues :
        LET o == Run(Store, CreateTaskDueReq(t, user, user, due)) IN
        (IsMember(Store, t, user) /\ o.q.pc = "done")
        => IF due <= now
           THEN o.q.result = "invalid" /\ o.w = Store
           ELSE o.q.result = "created"

\* C23: the created timestamp of a task is set when the task is created and
\* no later request changes it; every successful edit sets the updated
\* timestamp to the time of the edit; so updated >= created in every state
\* and the updated timestamp of a task never decreases.
TimestampsKept ==
    /\ [](\A k \in tasks : k.created_at <= k.updated_at /\ k.updated_at <= now)
    /\ [][/\ \A x \in tasks, y \in tasks' :
                x.id = y.id
                => /\ y.created_at = x.created_at
                   /\ y.updated_at >= x.updated_at
                   /\ (last = NoRequest /\ last'.op = "edit_task"
                       /\ last'.result = "updated" /\ last'.task = y.id)
                      => y.updated_at = now'
          /\ \A y \in tasks' :
                (\A x \in tasks : x.id # y.id)
                => y.id >= nextTask /\ y.created_at = now'
                   /\ y.updated_at = now']_vars
\* A task created earlier has just been edited: its updated timestamp is
\* the present time and its created timestamp the earlier one.
TimestampsKeptWitness ==
    /\ last.op = "edit_task"
    /\ last.result = "updated"
    /\ \E k \in tasks :
        k.id = last.task /\ k.created_at < k.updated_at /\ k.updated_at = now

\* C25: every team, membership, invitation and task refers only to users
\* and teams that exist; in particular, once a user is deleted no invitation
\* sent by or to that user and no task assigned to that user remains.
ReferencesExist ==
    /\ \A x \in teams : x.owner \in users
    /\ \A m \in members : TeamExists(Store, m[1]) /\ m[2] \in users
    /\ \A i \in invitations :
        i.sender \in users /\ i.recipient \in users /\ TeamExists(Store, i.team)
    /\ \A k \in tasks : k.assigned_to \in users /\ TeamExists(Store, k.team)
\* A member who is not the owner was deleted: the task that was assigned to
\* that member is gone and the team is still there.
ReferencesExistWitness ==
    /\ last.op = "delete_user"
    /\ last.result = "deleted"
    /\ last.user \notin users
    /\ nextTask > 1
    /\ tasks = {}
    /\ \E x \in teams : x.owner # last.user /\ <<x.id, x.owner>> \in members

====
